---- MODULE Spec2Model ----
(***************************************************************************)
(* Model of esp-hal-buzzer (src/esp-hal-buzzer/src/lib.rs): the Buzzer     *)
(* driver built on one LEDC timer, one LEDC channel number, a sound pin,   *)
(* a blocking delay and an optional Volume.                                *)
(*                                                                         *)
(* The driver is single-threaded and blocking, so every public operation   *)
(* is one action.  An operation is computed by operators that transform an *)
(* execution record `s` (the Buzzer's fields, the state of the LEDC timer  *)
(* and channel, and the log of the calls made to the collaborators), one   *)
(* operator per function of the source.  The LEDC timer and channel are    *)
(* fallible collaborators: each configure call either succeeds or fails,   *)
(* chosen by the environment through `fail_at`, the index (among the       *)
(* configure calls of the operation) of the call that fails, 0 for none.   *)
(* Every function of the driver stops at the first failure, so one index   *)
(* covers every failure pattern.                                           *)
(***************************************************************************)
EXTENDS Integers, Sequences, FiniteSets

VARIABLES
    apb_clock,   \* Clocks::get().apb_clock in Hz
    volume,      \* Buzzer.volume: <<>> is None, <<[volume_type, level]>> is Some
    timer,       \* Buzzer.timer: [configured, config], config the last one applied
    channel,     \* binding of the LEDC channel `channel_number`: <<>> or <<[pin, duty_pct]>>
    volume_pin,  \* level Output::new last drove on the volume pin
    played,      \* history: play() has been entered at least once
    ok_level,    \* history: level of the last set_volume(0..=99) that returned Ok, 50 at attachment
    called_level,\* history: level of the last set_volume(0..=99) called, 50 at attachment
    play_timer,  \* history: timer configuration of the last play whose timer call succeeded
    ok_play_timer, \* history: timer configuration of the last play(f > 0) that returned Ok
    last         \* the last public operation: name, arguments, state before, calls, result

vars == <<apb_clock, volume, timer, channel, volume_pin, played, ok_level,
          called_level, play_timer, ok_play_timer, last>>

----------------------------------------------------------------------------
(* Bounds of the model *)

\* longest tone sequence given to a sequence player
MaxLen == 3

\* longest sequence the players get in the specification of the single operations
OpsLen == 1

(* Program constants *)

\* hardware ceiling of the duty resolution: `result < 14`
MaxDutyBits == 14
\* level given by with_volume, and duty of play when no Duty volume is attached
DefaultLevel == 50
\* largest level the Duty strategy sends to the channel: `0..=99`
MaxPwmLevel == 99
\* the level the Duty strategy turns into a constant high pin: `100 =>`
FullLevel == 100
\* carrier of the dummy timer configuration of set_volume
CarrierHz == 20000
\* Duty::Duty11Bit of the dummy timer configuration
CarrierDutyBits == 11
\* u8::MAX, the largest level set_volume can be given
MaxU8 == 255

(* Input sets *)

\* The variants of timer::config::Duty the driver can name: Duty1Bit up to
\* Duty14Bit (the type has no 0-bit variant; wider ones exist on some chips but
\* the loop of play stops at 14).
DutyVariants == 1..MaxDutyBits

ApbClocks == {80000000, 40000000}
Frequencies == {0, 300, 20000, 30000000, 60000000, 100000000}
Levels == {0, 30, MaxPwmLevel, FullLevel, FullLevel + 1, MaxU8}
VolumeTypes == {"OnOff", "Duty"}
\* (frequency, duration) pairs the sequences are built from
Tones == {<<300, 200>>, <<200, 100>>, <<0, 50>>, <<60000000, 100>>}
\* The arguments of the single operations in SeqSpec
SeqLevels == {30}
SeqFrequencies == {0, 300}

----------------------------------------------------------------------------
(* Option and sequence helpers *)

None == <<>>
Some(v) == <<v>>
IsSome(o) == o # <<>>
Unwrap(o) == o[1]

SeqsUpTo(S, n) == UNION {[1..k -> S] : k \in 0..n}

Min(a, b) == IF a < b THEN a ELSE b

RECURSIVE Pow2(_)
Pow2(k) == IF k = 0 THEN 1 ELSE 2 * Pow2(k - 1)

\* floor(log2(n)) for 1 <= n < 2^32, defined by its bracketing powers of two
FloorLog2(n) == CHOOSE k \in 0..31 : Pow2(k) <= n /\ n < Pow2(k + 1)

----------------------------------------------------------------------------
(* Calls to the collaborators.  One record shape for every call. *)

Call(kind, pin, level, duty, freq, ms, ok) ==
    [kind |-> kind, pin |-> pin, level |-> level, duty |-> duty,
     frequency |-> freq, ms |-> ms, ok |-> ok]

\* timer.configure(Config {duty, clock_source: APBClk, frequency})
TimerCall(duty, freq, ok) == Call("timer", "none", "APBClk", duty, freq, 0, ok)
\* Channel::new(channel_number, pin).configure(Config {timer, duty_pct, PushPull})
ChannelCall(pin, duty_pct, ok) == Call("channel", pin, "PushPull", duty_pct, 0, 0, ok)
\* Output::new(volume_pin, level, OutputConfig::default())
PinCall(level) == Call("pin", "volume", level, 0, 0, 0, TRUE)
\* delay.delay_millis(ms)
DelayCall(ms) == Call("delay", "none", "none", 0, 0, ms, TRUE)
\* timer::config::Duty::try_from(result)
DutyCall(result, ok) == Call("duty", "none", "none", result, 0, 0, ok)

IsConfigure(c) == c.kind \in {"timer", "channel"}

OfKind(calls, kind) == SelectSeq(calls, LAMBDA c : c.kind = kind)
Count(calls, kind) == Len(OfKind(calls, kind))
ConfigureCount(calls) == Len(SelectSeq(calls, IsConfigure))

\* The environment's choice for the next configure call of the operation.
NextSucceeds(s) == ConfigureCount(s.calls) + 1 # s.fail_at

----------------------------------------------------------------------------
(* The execution record of an operation *)

Core == [volume |-> volume, timer |-> timer, channel |-> channel,
         volume_pin |-> volume_pin]

Start(fail_at) ==
    [volume |-> volume, timer |-> timer, channel |-> channel,
     volume_pin |-> volume_pin, calls |-> <<>>, result |-> "Running",
     fail_at |-> fail_at]

CoreOf(s) == [volume |-> s.volume, timer |-> s.timer, channel |-> s.channel,
              volume_pin |-> s.volume_pin]

Return(s, result) == [s EXCEPT !.result = result]

(* The collaborators *)

\* TimerIFace::configure: on success the timer holds the configuration and
\* is_configured() is true from then on; on failure the driver gets timer::Error.
TimerConfigure(s, duty, freq) ==
    LET ok == NextSucceeds(s)
    IN  [s EXCEPT !.calls = Append(@, TimerCall(duty, freq, ok)),
                  !.timer = IF ok
                            THEN [configured |-> TRUE,
                                  config |-> Some([duty |-> duty,
                                                   clock_source |-> "APBClk",
                                                   frequency |-> freq])]
                            ELSE @]

\* ChannelIFace::configure on a Channel made for `pin`.
ChannelConfigure(s, pin, duty_pct) ==
    LET ok == NextSucceeds(s)
    IN  [s EXCEPT !.calls = Append(@, ChannelCall(pin, duty_pct, ok)),
                  !.channel = IF ok
                              THEN Some([pin |-> pin, duty_pct |-> duty_pct])
                              ELSE @]

\* Output::new on the volume pin
DrivePin(s, level) ==
    [s EXCEPT !.calls = Append(@, PinCall(level)), !.volume_pin = level]

\* Delay::delay_millis
DelayMillis(s, ms) == [s EXCEPT !.calls = Append(@, DelayCall(ms))]

LastOk(s) == s.calls[Len(s.calls)].ok

----------------------------------------------------------------------------
(* The functions of the driver.  Each is written as a chain of operators,   *)
(* one per step, the result of a step being the argument of the next.       *)

\* `.unwrap()` of the result of the configure call just made
Unwrapped(c) == IF LastOk(c) THEN c ELSE Return(c, "Panic")

\* `?` on the last configure call of a function, then Ok(())
Completed(c, error) == IF LastOk(c) THEN Return(c, "Ok") ELSE Return(c, error)

\* `self.mute(); Ok(())`, mute having returned unless it panicked
OkAfterMute(m) == IF m.result = "Panic" THEN m ELSE Return(m, "Ok")

(* Buzzer::mute *)

\* A mutant of Mute: no early return when the timer is not configured.
MuteAlways(s) == Unwrapped(ChannelConfigure(s, "sound", 0))

\* Early return when the timer is not configured; else the sound pin's channel
\* is configured at 0% and the result unwrapped: a failure panics.
Mute(s) ==
    IF ~s.timer.configured
    THEN s
    ELSE Unwrapped(ChannelConfigure(s, "sound", 0))

(* Buzzer::play *)

\* The loop of play: `while value > 1 && result < 14 { value >>= 1; result += 1 }`
RECURSIVE DutyLoop(_, _)
DutyLoop(value, result) ==
    IF value > 1 /\ result < MaxDutyBits
    THEN DutyLoop(value \div 2, result + 1)
    ELSE result

\* `value = apb_clock / Rate::from_hz(frequency)`, then the loop from result 0
Resolution(apb, frequency) == DutyLoop(apb \div frequency, 0)

\* `Duty::try_from(result)`: Ok for a variant of Duty, else Err
DutyTryFrom(s, result) ==
    [s EXCEPT !.calls = Append(@, DutyCall(result, result \in DutyVariants))]

\* `map_or(50, |v| v.level)`: the level of any attached volume, else 50
PlayDutyPct(s) == IF IsSome(s.volume) THEN Unwrap(s.volume).level ELSE DefaultLevel

\* A mutant of PlayChannel: the channel is configured whatever the timer
\* configuration returned.
PlayChannelRegardless(t) ==
    Completed(ChannelConfigure(t, "sound", PlayDutyPct(t)), "Channel")

\* After `self.timer.configure(..)?`: the channel of the sound pin
PlayChannel(t) ==
    IF ~LastOk(t)
    THEN Return(t, "Timer")
    ELSE Completed(ChannelConfigure(t, "sound", PlayDutyPct(t)), "Channel")

\* After `Duty::try_from(result)`: unwrap it and configure the timer
PlayTimer(d, result, frequency) ==
    IF ~LastOk(d)
    THEN Return(d, "Panic")
    ELSE PlayChannel(TimerConfigure(d, result, frequency))

PlayResolved(s, result, frequency) ==
    PlayTimer(DutyTryFrom(s, result), result, frequency)

Play(s, frequency) ==
    IF frequency = 0
    THEN OkAfterMute(Mute(s))
    ELSE PlayResolved(s, Resolution(apb_clock, frequency), frequency)

(* Buzzer::set_volume *)

\* `volume.level = level`
SetLevel(s, level) ==
    [s EXCEPT !.volume = Some([Unwrap(@) EXCEPT !.level = level])]

\* A mutant of SetVolumeChannel: the channel is made for the sound pin.
SetVolumeChannelOnSoundPin(t, level) ==
    Completed(ChannelConfigure(t, "sound", level), "Channel")

\* The channel of the volume pin at duty_pct = level
SetVolumeChannel(t, level) ==
    Completed(ChannelConfigure(t, "volume", level), "Channel")

\* After the dummy `self.timer.configure(..)?`
SetVolumeDummy(t, level) ==
    IF ~LastOk(t) THEN Return(t, "Timer") ELSE SetVolumeChannel(t, level)

\* A mutant of SetVolumeTimer: the dummy configuration is applied whether the
\* timer is configured or not.
SetVolumeTimerAlways(v, level) ==
    SetVolumeDummy(TimerConfigure(v, CarrierDutyBits, CarrierHz), level)

\* `if !self.timer.is_configured()`: the dummy configuration, 11 bits at 20 kHz
SetVolumeTimer(v, level) ==
    IF ~v.timer.configured
    THEN SetVolumeDummy(TimerConfigure(v, CarrierDutyBits, CarrierHz), level)
    ELSE SetVolumeChannel(v, level)

\* A mutant of SetVolumeDuty: the level is stored after the hardware calls, and
\* only when they succeeded.
SetVolumeDutyStoresOnOk(s, level) ==
    IF SetVolumeTimer(s, level).result = "Ok"
    THEN SetLevel(SetVolumeTimer(s, level), level)
    ELSE SetVolumeTimer(s, level)

\* The arm `0..=99` of the Duty strategy: the level is stored first
SetVolumeDuty(s, level) == SetVolumeTimer(SetLevel(s, level), level)

\* A mutant of SetVolumeDutyArm: a level above 100 is taken as 100.
SetVolumeDutyArmSaturating(s, level) ==
    IF level \in 0..MaxPwmLevel
    THEN SetVolumeDuty(s, level)
    ELSE Return(DrivePin(s, "High"), "Ok")

\* A mutant of SetVolumeDutyArm: level 100 is stored like the others.
SetVolumeDutyArmStoresFull(s, level) ==
    IF level \in 0..MaxPwmLevel
    THEN SetVolumeDuty(s, level)
    ELSE IF level = FullLevel
         THEN Return(DrivePin(SetLevel(s, level), "High"), "Ok")
         ELSE Return(s, "VolumeOutOfRange")

\* A mutant of SetVolumeDutyArm: the level is stored before it is matched.
SetVolumeDutyArmStoresAny(s, level) ==
    IF level \in 0..MaxPwmLevel
    THEN SetVolumeDuty(s, level)
    ELSE IF level = FullLevel
         THEN Return(DrivePin(SetLevel(s, level), "High"), "Ok")
         ELSE Return(SetLevel(s, level), "VolumeOutOfRange")

\* `match level` of the Duty strategy
SetVolumeDutyArm(s, level) ==
    IF level \in 0..MaxPwmLevel
    THEN SetVolumeDuty(s, level)
    ELSE IF level = FullLevel
         THEN Return(DrivePin(s, "High"), "Ok")
         ELSE Return(s, "VolumeOutOfRange")

\* A mutant of SetVolumeOnOff: the level is stored as in the Duty strategy.
SetVolumeOnOffStoresLevel(s, level) ==
    Return(DrivePin(SetLevel(s, level), IF level # 0 THEN "High" ELSE "Low"), "Ok")

\* A mutant of SetVolumeOnOff: the levels above 100 are refused as in the Duty
\* strategy.
SetVolumeOnOffRanged(s, level) ==
    IF level > FullLevel
    THEN Return(s, "VolumeOutOfRange")
    ELSE Return(DrivePin(s, IF level # 0 THEN "High" ELSE "Low"), "Ok")

\* The arm VolumeType::OnOff: low on 0, else high
SetVolumeOnOff(s, level) ==
    Return(DrivePin(s, IF level # 0 THEN "High" ELSE "Low"), "Ok")

\* A mutant of SetVolume: without a volume the call returns Ok.
SetVolumeUnattachedOk(s, level) ==
    IF ~IsSome(s.volume)
    THEN Return(s, "Ok")
    ELSE IF Unwrap(s.volume).volume_type = "OnOff"
         THEN SetVolumeOnOff(s, level)
         ELSE SetVolumeDutyArm(s, level)

SetVolume(s, level) ==
    IF ~IsSome(s.volume)
    THEN Return(s, "VolumeNotSet")
    ELSE IF Unwrap(s.volume).volume_type = "OnOff"
         THEN SetVolumeOnOff(s, level)
         ELSE SetVolumeDutyArm(s, level)

----------------------------------------------------------------------------
(* The sequence players.  Each loop is `play(f)?; delay_millis(t); mute();` *)
(* for every pair, then a last mute() and Ok.                               *)

\* `self.delay.delay_millis(timing); self.mute();` after a play that returned Ok
DelayThenMute(p, timing) == Mute(DelayMillis(Return(p, "Running"), timing))

\* Buzzer::play_tones: `for (frequency, timing) in sequence.iter().zip(timings.iter())`
RECURSIVE PlayTonesLoop(_, _, _, _)
RECURSIVE PlayTonesPlayed(_, _, _, _)
RECURSIVE PlayTonesMuted(_, _, _, _)
\* A mutant of PlayTonesLoop: no mute after the last pair.
PlayTonesLoopNoLastMute(s, sequence, timings, i) ==
    IF i > Min(Len(sequence), Len(timings))
    THEN Return(s, "Ok")
    ELSE PlayTonesPlayed(Play(s, sequence[i]), sequence, timings, i)

PlayTonesLoop(s, sequence, timings, i) ==
    IF i > Min(Len(sequence), Len(timings))
    THEN OkAfterMute(Mute(s))
    ELSE PlayTonesPlayed(Play(s, sequence[i]), sequence, timings, i)

\* A mutant of PlayTonesPlayed: the error of a play is dropped and the pair is
\* gone on with.
PlayTonesPlayedContinues(p, sequence, timings, i) ==
    IF p.result = "Panic"
    THEN p
    ELSE PlayTonesMuted(DelayThenMute(p, timings[i]), sequence, timings, i)

\* `self.play(*frequency)?`
PlayTonesPlayed(p, sequence, timings, i) ==
    IF p.result # "Ok"
    THEN p
    ELSE PlayTonesMuted(DelayThenMute(p, timings[i]), sequence, timings, i)

PlayTonesMuted(m, sequence, timings, i) ==
    IF m.result = "Panic" THEN m ELSE PlayTonesLoop(m, sequence, timings, i + 1)

PlayTones(s, sequence, timings) == PlayTonesLoop(s, sequence, timings, 1)

\* Buzzer::play_tones_from_slice: the same loop behind the length check
RECURSIVE PlayTonesFromSliceLoop(_, _, _, _)
RECURSIVE PlayTonesFromSlicePlayed(_, _, _, _)
RECURSIVE PlayTonesFromSliceMuted(_, _, _, _)
PlayTonesFromSliceLoop(s, sequence, timings, i) ==
    IF i > Min(Len(sequence), Len(timings))
    THEN OkAfterMute(Mute(s))
    ELSE PlayTonesFromSlicePlayed(Play(s, sequence[i]), sequence, timings, i)

\* A mutant of PlayTonesFromSlicePlayed: no mute between the delay of a pair
\* and the next pair.
PlayTonesFromSlicePlayedNoMute(p, sequence, timings, i) ==
    IF p.result # "Ok"
    THEN p
    ELSE PlayTonesFromSliceLoop(DelayMillis(Return(p, "Running"), timings[i]),
                                sequence, timings, i + 1)

PlayTonesFromSlicePlayed(p, sequence, timings, i) ==
    IF p.result # "Ok"
    THEN p
    ELSE PlayTonesFromSliceMuted(DelayThenMute(p, timings[i]), sequence, timings, i)

PlayTonesFromSliceMuted(m, sequence, timings, i) ==
    IF m.result = "Panic"
    THEN m
    ELSE PlayTonesFromSliceLoop(m, sequence, timings, i + 1)

\* A mutant of PlayTonesFromSlice: the lengths are not compared, zip stops at
\* the shorter slice.
PlayTonesFromSliceUnchecked(s, sequence, timings) ==
    PlayTonesFromSliceLoop(s, sequence, timings, 1)

PlayTonesFromSlice(s, sequence, timings) ==
    IF Len(sequence) # Len(timings)
    THEN Return(s, "LengthMismatch")
    ELSE PlayTonesFromSliceLoop(s, sequence, timings, 1)

\* Buzzer::play_song: `for tone in tones`, a tone being [frequency, duration]
RECURSIVE PlaySongLoop(_, _)
RECURSIVE PlaySongPlayed(_, _)
RECURSIVE PlaySongMuted(_, _)
\* A mutant of PlaySongLoop: no mute after the last tone.
PlaySongLoopNoLastMute(s, tones) ==
    IF tones = <<>>
    THEN Return(s, "Ok")
    ELSE PlaySongPlayed(Play(s, Head(tones).frequency), tones)

PlaySongLoop(s, tones) ==
    IF tones = <<>>
    THEN OkAfterMute(Mute(s))
    ELSE PlaySongPlayed(Play(s, Head(tones).frequency), tones)

\* A mutant of PlaySongPlayed: no mute between a tone's delay and the next tone.
PlaySongPlayedNoMute(p, tones) ==
    IF p.result # "Ok"
    THEN p
    ELSE PlaySongLoop(DelayMillis(Return(p, "Running"), Head(tones).duration),
                      Tail(tones))

PlaySongPlayed(p, tones) ==
    IF p.result # "Ok"
    THEN p
    ELSE PlaySongMuted(DelayThenMute(p, Head(tones).duration), tones)

PlaySongMuted(m, tones) ==
    IF m.result = "Panic" THEN m ELSE PlaySongLoop(m, Tail(tones))

PlaySong(s, tones) == PlaySongLoop(s, tones)

----------------------------------------------------------------------------
(* The state machine *)

\* ToneValue
ToneValue(pair) == [frequency |-> pair[1], duration |-> pair[2]]

FrequenciesOf(pairs) == [i \in 1..Len(pairs) |-> pairs[i][1]]
TimingsOf(pairs) == [i \in 1..Len(pairs) |-> pairs[i][2]]
SongOf(pairs) == [i \in 1..Len(pairs) |-> ToneValue(pairs[i])]

\* At most this many configure calls are made by a player given n pairs
MaxConfigures(n) == 3 * n + 1

Op(name, frequency, level, volume_type, sequence, timings, calls, result) ==
    [op |-> name, frequency |-> frequency, level |-> level,
     volume_type |-> volume_type, sequence |-> sequence, timings |-> timings,
     pre |-> Core, pre_played |-> played,
     calls |-> calls, result |-> result]

\* The state Buzzer::new builds (with the timer ledc.timer() hands out)
FreshCore ==
    [volume |-> None, timer |-> [configured |-> FALSE, config |-> None],
     channel |-> None, volume_pin |-> "Unset"]

\* No operation is pending: the caller holds the Buzzer.
NoCall ==
    [op |-> "none", frequency |-> 0, level |-> 0, volume_type |-> "none",
     sequence |-> <<>>, timings |-> <<>>, pre |-> FreshCore,
     pre_played |-> FALSE,
     calls |-> <<>>, result |-> "none"]

\* The caller is between two operations.
Idle == last = NoCall

\* Buzzer::new
Init ==
    /\ apb_clock \in ApbClocks
    /\ volume = FreshCore.volume
    /\ timer = FreshCore.timer
    /\ channel = FreshCore.channel
    /\ volume_pin = FreshCore.volume_pin
    /\ played = FALSE
    /\ ok_level = DefaultLevel
    /\ called_level = DefaultLevel
    /\ play_timer = None
    /\ ok_play_timer = None
    /\ last = NoCall

\* The operation has returned and the caller goes on with the Buzzer; after a
\* panic there is no caller to go on.
Resume ==
    /\ ~Idle
    /\ last.result # "Panic"
    /\ last' = NoCall
    /\ UNCHANGED <<apb_clock, volume, timer, channel, volume_pin, played, ok_level,
                   called_level, play_timer, ok_play_timer>>

\* The successful timer calls the plays of a log made: in play the timer call
\* follows the conversion of the resolution
PlayTimerCalls(calls) ==
    {p \in 2..Len(calls) :
        calls[p].kind = "timer" /\ calls[p].ok /\ calls[p - 1].kind = "duty"}

\* Those of them whose play went on to configure the channel and returned Ok
OkPlayTimerCalls(calls) ==
    {p \in PlayTimerCalls(calls) :
        p < Len(calls) /\ calls[p + 1].kind = "channel" /\ calls[p + 1].ok}

\* The configuration the last of the timer calls at `positions` applied, or
\* `before` if there is none
LastTimerConfig(calls, positions, before) ==
    IF positions = {}
    THEN before
    ELSE LET p == CHOOSE x \in positions : \A y \in positions : y <= x
         IN  Some([duty |-> calls[p].duty, clock_source |-> calls[p].level,
                   frequency |-> calls[p].frequency])

\* What an operation that ended in `s` leaves behind
Commit(s) ==
    /\ volume' = s.volume
    /\ timer' = s.timer
    /\ channel' = s.channel
    /\ volume_pin' = s.volume_pin
    /\ play_timer' = LastTimerConfig(s.calls, PlayTimerCalls(s.calls), play_timer)
    /\ ok_play_timer' = LastTimerConfig(s.calls, OkPlayTimerCalls(s.calls), ok_play_timer)
    /\ UNCHANGED apb_clock

\* Buzzer::with_volume
WithVolume(volume_type) ==
    /\ Idle
    /\ volume' = Some([volume_type |-> volume_type, level |-> DefaultLevel])
    /\ volume_pin' = "Unset"
    /\ ok_level' = DefaultLevel
    /\ called_level' = DefaultLevel
    /\ last' = Op("with_volume", 0, 0, volume_type, <<>>, <<>>, <<>>, "Ok")
    /\ UNCHANGED <<apb_clock, timer, channel, played, play_timer, ok_play_timer>>

\* set_volume(level) is a call with a level in 0..=99 on a Duty volume
PwmLevelCall(level) ==
    /\ IsSome(volume)
    /\ Unwrap(volume).volume_type = "Duty"
    /\ level \in 0..MaxPwmLevel

SetVolumeOp(level, fail_at) ==
    /\ Idle
    /\ \E s \in {SetVolume(Start(fail_at), level)} :
           /\ Commit(s)
           /\ ok_level' = IF PwmLevelCall(level) /\ s.result = "Ok"
                          THEN level
                          ELSE ok_level
           /\ called_level' = IF PwmLevelCall(level) THEN level ELSE called_level
           /\ last' = Op("set_volume", 0, level, "none", <<>>, <<>>, s.calls, s.result)
    /\ UNCHANGED played

MuteOp(fail_at) ==
    /\ Idle
    /\ \E s \in {Mute(Start(fail_at))} :
           /\ Commit(s)
           /\ last' = Op("mute", 0, 0, "none", <<>>, <<>>, s.calls,
                         IF s.result = "Panic" THEN "Panic" ELSE "Unit")
    /\ UNCHANGED <<played, ok_level, called_level>>

PlayOp(frequency, fail_at) ==
    /\ Idle
    /\ \E s \in {Play(Start(fail_at), frequency)} :
           /\ Commit(s)
           /\ last' = Op("play", frequency, 0, "none", <<>>, <<>>, s.calls, s.result)
    /\ played' = TRUE
    /\ UNCHANGED <<ok_level, called_level>>

PlayTonesOp(pairs, fail_at) ==
    /\ Idle
    /\ \E s \in {PlayTones(Start(fail_at), FrequenciesOf(pairs), TimingsOf(pairs))} :
           /\ Commit(s)
           /\ last' = Op("play_tones", 0, 0, "none", FrequenciesOf(pairs),
                         TimingsOf(pairs), s.calls, s.result)
    /\ played' = (played \/ pairs # <<>>)
    /\ UNCHANGED <<ok_level, called_level>>

PlayTonesFromSliceOp(sequence, timings, fail_at) ==
    /\ Idle
    /\ \E s \in {PlayTonesFromSlice(Start(fail_at), sequence, timings)} :
           /\ Commit(s)
           /\ last' = Op("play_tones_from_slice", 0, 0, "none", sequence, timings,
                         s.calls, s.result)
    /\ played' = (played \/ (Len(sequence) = Len(timings) /\ sequence # <<>>))
    /\ UNCHANGED <<ok_level, called_level>>

PlaySongOp(pairs, fail_at) ==
    /\ Idle
    /\ \E s \in {PlaySong(Start(fail_at), SongOf(pairs))} :
           /\ Commit(s)
           /\ last' = Op("play_song", 0, 0, "none", FrequenciesOf(pairs),
                         TimingsOf(pairs), s.calls, s.result)
    /\ played' = (played \/ pairs # <<>>)
    /\ UNCHANGED <<ok_level, called_level>>

\* The operations a caller holding the Buzzer can start, its arguments drawn
\* from the given sets and its sequences of at most n pairs
OpsFromIdle(n, volume_types, levels, frequencies, tones) ==
    \/ Idle /\ \E volume_type \in volume_types : WithVolume(volume_type)
    \/ Idle /\ \E level \in levels, fail_at \in 0..2 : SetVolumeOp(level, fail_at)
    \/ Idle /\ \E fail_at \in 0..1 : MuteOp(fail_at)
    \/ Idle /\ \E frequency \in frequencies, fail_at \in 0..2 :
                  PlayOp(frequency, fail_at)
    \/ Idle /\ \E pairs \in SeqsUpTo(tones, n), fail_at \in 0..MaxConfigures(n) :
                  PlayTonesOp(pairs, fail_at)
    \/ Idle /\ \E pairs \in SeqsUpTo(tones, n), fail_at \in 0..MaxConfigures(n) :
                  PlayTonesFromSliceOp(FrequenciesOf(pairs), TimingsOf(pairs), fail_at)
    \/ Idle /\ \E pairs \in SeqsUpTo(tones, n), i, j \in 0..n :
                  /\ i <= Len(pairs)
                  /\ j <= Len(pairs)
                  /\ i # j
                  /\ PlayTonesFromSliceOp(SubSeq(FrequenciesOf(pairs), 1, i),
                                          SubSeq(TimingsOf(pairs), 1, j), 0)
    \/ Idle /\ \E pairs \in SeqsUpTo(tones, n), fail_at \in 0..MaxConfigures(n) :
                  PlaySongOp(pairs, fail_at)

\* Every operation on every kind of argument, the sequences short
Next ==
    \/ Resume
    \/ OpsFromIdle(OpsLen, VolumeTypes, Levels, Frequencies, Tones)

Spec == Init /\ [][Next]_vars

\* The sequence players on sequences of up to MaxLen pairs, between single
\* operations on fewer kinds of argument, on one platform
SeqInit == Init /\ apb_clock = 80000000

SeqNext ==
    \/ Resume
    \/ OpsFromIdle(MaxLen, {"Duty"}, SeqLevels, SeqFrequencies, Tones)

SeqSpec == SeqInit /\ [][SeqNext]_vars

----------------------------------------------------------------------------
(* Vocabulary of the properties *)

Players == {"play_tones", "play_tones_from_slice", "play_song"}

\* No timer or channel configuration of the last operation failed.
NoCollaboratorFailure ==
    \A i \in 1..Len(last.calls) : IsConfigure(last.calls[i]) => last.calls[i].ok

AllNonzero(sequence) == \A i \in 1..Len(sequence) : sequence[i] # 0

\* The frequency is one play finds a variant of Duty for.
Convertible(frequency) == apb_clock \div frequency >= 2

\* The binding of the channel to the sound pin at 0%
Silent == Some([pin |-> "sound", duty_pct |-> 0])

\* The timer, channel and delay calls of a log, the resolution of a timer
\* call left out
Observed(calls) ==
    LET kept == SelectSeq(calls, LAMBDA c : c.kind # "duty")
    IN  [i \in 1..Len(kept) |->
            IF kept[i].kind = "timer" THEN [kept[i] EXCEPT !.duty = 0] ELSE kept[i]]

\* What the players are to do for pairs of nonzero frequency from pair i on,
\* when nothing fails: timer, channel at duty_pct, delay, channel at 0% for
\* each pair, and the channel at 0% once more.
RECURSIVE ExpectedTones(_, _, _, _)
ExpectedTones(sequence, timings, duty_pct, i) ==
    IF i > Len(sequence)
    THEN <<ChannelCall("sound", 0, TRUE)>>
    ELSE <<TimerCall(0, sequence[i], TRUE),
           ChannelCall("sound", duty_pct, TRUE),
           DelayCall(timings[i]),
           ChannelCall("sound", 0, TRUE)>>
         \o ExpectedTones(sequence, timings, duty_pct, i + 1)

\* The level of the volume of a state, 50 without one
LevelOr50(core) == IF IsSome(core.volume) THEN Unwrap(core.volume).level ELSE DefaultLevel

----------------------------------------------------------------------------
(* C1 *)

\* play_song on an engine whose timer and channel were never configured,
\* over n >= 1 tones of nonzero frequency, no timer or channel call failing
C1_Case ==
    /\ last.op = "play_song"
    /\ ~last.pre.timer.configured
    /\ last.pre.channel = None
    /\ Len(last.sequence) >= 1
    /\ AllNonzero(last.sequence)
    /\ NoCollaboratorFailure

\* C1 as amended: from a fresh engine and with no collaborator failure,
\* play_song over n >= 1 tones of nonzero frequency, each at most half the
\* platform clock, returns Ok having issued, tone by tone in input order, a
\* timer configuration, a channel configuration at the play duty, the tone's
\* delay and a channel configuration at 0%, and after the last tone one more
\* channel configuration at 0%: n timer configurations, 2n+1 channel
\* configurations and n delays, the channel left on the sound pin at 0%.  A
\* tone above half the platform clock makes the call panic instead.
C1_PlaySongCalls ==
    C1_Case =>
        IF \A i \in 1..Len(last.sequence) : Convertible(last.sequence[i])
        THEN /\ last.result = "Ok"
             /\ Observed(last.calls)
                    = ExpectedTones(last.sequence, last.timings, LevelOr50(last.pre), 1)
             /\ Count(last.calls, "timer") = Len(last.sequence)
             /\ Count(last.calls, "channel") = 2 * Len(last.sequence) + 1
             /\ Count(last.calls, "delay") = Len(last.sequence)
             /\ channel = Silent
        ELSE last.result = "Panic"

\* C1 witness: the three-tone song of two different frequencies has returned Ok.
C1_Witness ==
    /\ C1_Case
    /\ Len(last.sequence) = 3
    /\ last.sequence[1] # last.sequence[2]
    /\ last.result = "Ok"

\* C1 as stated: n timer configurations, n+1 channel configurations and n
\* delays with the tones' durations (stated here for the frequencies play can
\* convert).
C1_Original ==
    (C1_Case /\ \A i \in 1..Len(last.sequence) : Convertible(last.sequence[i])) =>
        /\ Count(last.calls, "timer") = Len(last.sequence)
        /\ Count(last.calls, "channel") = Len(last.sequence) + 1
        /\ [i \in 1..Count(last.calls, "delay") |-> OfKind(last.calls, "delay")[i].ms]
               = last.timings
        /\ channel = Silent

----------------------------------------------------------------------------
(* C2 *)

\* C2: when a sequence player returns Ok the engine is not sounding: the timer
\* is not configured and the channel was never configured, or the channel is
\* on the sound pin at 0%.
C2_SilentAfterSequence ==
    (last.op \in Players /\ last.result = "Ok") =>
        \/ ~timer.configured /\ channel = None
        \/ channel = Silent

\* C2 witness: a player has returned Ok on an engine that was sounding a tone,
\* with nothing to play.
C2_Witness ==
    /\ last.op \in Players
    /\ last.result = "Ok"
    /\ last.sequence = <<>>
    /\ IsSome(last.pre.channel)
    /\ Unwrap(last.pre.channel).pin = "sound"
    /\ Unwrap(last.pre.channel).duty_pct > 0

----------------------------------------------------------------------------
(* C3 *)

\* C3: play_tones_from_slice on slices of different lengths returns
\* LengthMismatch, makes no call and leaves the engine as it was.
C3_LengthMismatch ==
    (last.op = "play_tones_from_slice" /\ Len(last.sequence) # Len(last.timings)) =>
        /\ last.result = "LengthMismatch"
        /\ last.calls = <<>>
        /\ Core = last.pre
        /\ played = last.pre_played

\* C3 witness: two frequencies and three timings on an engine sounding a tone.
C3_Witness ==
    /\ last.op = "play_tones_from_slice"
    /\ Len(last.sequence) = 2
    /\ Len(last.timings) = 3
    /\ last.pre.timer.configured
    /\ last.pre.channel # None
    /\ last.pre.channel # Silent
    /\ last.result = "LengthMismatch"

----------------------------------------------------------------------------
(* Vocabulary of the properties on set_volume *)

\* The last operation is set_volume on an engine with a volume of this type.
SetVolumeOn(volume_type) ==
    /\ last.op = "set_volume"
    /\ IsSome(last.pre.volume)
    /\ Unwrap(last.pre.volume).volume_type = volume_type

\* The last operation left the engine as it found it.
Untouched == Core = last.pre

----------------------------------------------------------------------------
(* C4 *)

\* C4: without a volume, set_volume returns VolumeNotSet for every level,
\* makes no timer, channel or pin call and leaves the engine as it was.
C4_VolumeNotSet ==
    (last.op = "set_volume" /\ last.pre.volume = None) =>
        /\ last.result = "VolumeNotSet"
        /\ last.calls = <<>>
        /\ Untouched

\* C4 witness: set_volume(255) without a volume, after a play configured the timer.
C4_Witness ==
    /\ last.op = "set_volume"
    /\ last.pre.volume = None
    /\ last.level = MaxU8
    /\ last.pre.timer.configured
    /\ last.pre_played

----------------------------------------------------------------------------
(* C5 *)

\* C5: on a Duty volume, set_volume of a level above 100 returns
\* VolumeOutOfRange, makes no call and leaves the level, the timer, the channel
\* and the pin as they were.
C5_VolumeOutOfRange ==
    (SetVolumeOn("Duty") /\ last.level \in (FullLevel + 1)..MaxU8) =>
        /\ last.result = "VolumeOutOfRange"
        /\ last.calls = <<>>
        /\ Untouched

\* C5 witness: set_volume(101) on a Duty volume whose level was set and whose
\* channel is bound.
C5_Witness ==
    /\ SetVolumeOn("Duty")
    /\ last.level = FullLevel + 1
    /\ Unwrap(last.pre.volume).level # DefaultLevel
    /\ last.pre.channel # None

----------------------------------------------------------------------------
(* C6 *)

\* The last operation is a play of a nonzero frequency that reached the
\* channel, on an engine with a Duty volume.
C6_PlayOnDuty ==
    /\ last.op = "play"
    /\ last.frequency # 0
    /\ IsSome(last.pre.volume)
    /\ Unwrap(last.pre.volume).volume_type = "Duty"
    /\ Count(last.calls, "channel") = 1

\* C6 as amended: on a Duty volume set_volume(100) returns Ok, drives the
\* volume pin high and makes no timer and no channel call, the stored level,
\* the timer and the channel staying as they were; a play of a nonzero
\* frequency configures the sound channel with the level of the last
\* set_volume(0..=99) call, whether that call returned Ok or an error (50 if
\* there was none), never with 100.
C6_FullLevel ==
    /\ (SetVolumeOn("Duty") /\ last.level = FullLevel) =>
           /\ last.result = "Ok"
           /\ last.calls = <<PinCall("High")>>
           /\ volume_pin = "High"
           /\ volume = last.pre.volume
           /\ timer = last.pre.timer
           /\ channel = last.pre.channel
    /\ C6_PlayOnDuty =>
           /\ OfKind(last.calls, "channel")[1].pin = "sound"
           /\ OfKind(last.calls, "channel")[1].duty = called_level
           /\ OfKind(last.calls, "channel")[1].duty # FullLevel

\* C6 witness: a play configured the sound channel after set_volume(100) drove
\* the pin high, the level having been set before.
C6_Witness ==
    /\ C6_PlayOnDuty
    /\ last.pre.volume_pin = "High"
    /\ called_level # DefaultLevel
    /\ last.result = "Ok"

\* C6 as stated: the play uses the level of the last set_volume(0..=99) that
\* returned Ok, or 50.
C6_Original ==
    C6_PlayOnDuty => OfKind(last.calls, "channel")[1].duty = ok_level

----------------------------------------------------------------------------
(* C7 *)

\* C7: on a Duty volume and with no collaborator failure, set_volume of a level
\* in 0..=99 returns Ok, stores the level and leaves the one channel bound to
\* the volume pin at that duty; the timer is configured (11 bits, 20 kHz) only
\* if it was not, and a binding to the sound pin is replaced.
C7_DutyLevel ==
    (SetVolumeOn("Duty") /\ last.level \in 0..MaxPwmLevel /\ NoCollaboratorFailure) =>
        /\ last.result = "Ok"
        /\ Unwrap(volume).level = last.level
        /\ channel = Some([pin |-> "volume", duty_pct |-> last.level])
        /\ Len(channel) = 1
        /\ last.calls = IF last.pre.timer.configured
                        THEN <<ChannelCall("volume", last.level, TRUE)>>
                        ELSE <<TimerCall(CarrierDutyBits, CarrierHz, TRUE),
                               ChannelCall("volume", last.level, TRUE)>>

\* C7 witness: set_volume(99) returned Ok while a tone was sounding on the
\* sound pin.
C7_Witness ==
    /\ SetVolumeOn("Duty")
    /\ last.level = MaxPwmLevel
    /\ last.result = "Ok"
    /\ IsSome(last.pre.channel)
    /\ Unwrap(last.pre.channel).pin = "sound"
    /\ Unwrap(last.pre.channel).duty_pct > 0

----------------------------------------------------------------------------
(* C8 *)

\* C8 as amended: mute() on an engine whose timer is not configured makes no
\* call and changes nothing; on an engine whose timer is configured it makes
\* one channel call, the sound pin at 0%.  Before any play() the timer is
\* configured only by a set_volume(0..=99) on a Duty volume (11 bits, 20 kHz),
\* and then mute() does reach the channel.
C8_MuteTimerNotConfigured ==
    last.op = "mute" =>
        /\ ~last.pre.timer.configured =>
               /\ last.calls = <<>>
               /\ Untouched
               /\ last.result = "Unit"
        /\ last.pre.timer.configured =>
               /\ Len(last.calls) = 1
               /\ last.calls[1] = ChannelCall("sound", 0, last.calls[1].ok)
        /\ (~last.pre_played /\ last.pre.timer.configured) =>
               last.pre.timer.config
                   = Some([duty |-> CarrierDutyBits, clock_source |-> "APBClk",
                           frequency |-> CarrierHz])

\* C8 witness: mute() before any play() on an engine with a Duty volume whose
\* level was set, the timer not configured.
C8_Witness ==
    /\ last.op = "mute"
    /\ ~last.pre_played
    /\ IsSome(last.pre.volume)
    /\ Unwrap(last.pre.volume).volume_type = "Duty"
    /\ Unwrap(last.pre.volume).level # DefaultLevel
    /\ ~last.pre.timer.configured
    /\ last.calls = <<>>

\* C8 as stated: mute() before any play() makes no channel call.
C8_Original ==
    (last.op = "mute" /\ ~last.pre_played) => Count(last.calls, "channel") = 0

----------------------------------------------------------------------------
(* C9 *)

\* The last operation is a play of frequency 0.
C9_PlayZero == last.op = "play" /\ last.frequency = 0

\* The index in the log of the last operation of its j-th delay call
C9_DelayIndex(j) ==
    LET delays == {k \in 1..Len(last.calls) : last.calls[k].kind = "delay"}
    IN  CHOOSE k \in delays : Cardinality({m \in delays : m <= k}) = j

\* The binding of the channel after the first k calls of the last operation
C9_ChannelAfter(k) ==
    LET bound == {m \in 1..k : last.calls[m].kind = "channel" /\ last.calls[m].ok}
    IN  IF bound = {}
        THEN last.pre.channel
        ELSE LET m == CHOOSE x \in bound : \A y \in bound : y <= x
             IN  Some([pin |-> last.calls[m].pin, duty_pct |-> last.calls[m].duty])

\* Slot j of the sequence of the last operation has frequency 0 and its delay
\* was reached.
C9_ZeroSlot(j) ==
    /\ last.op \in Players
    /\ j \in 1..Len(last.sequence)
    /\ last.sequence[j] = 0
    /\ Count(last.calls, "delay") >= j

\* Between the delay before slot j and the delay of slot j no timer call is
\* made, and at the delay of slot j the channel is at 0% on the sound pin, or
\* was never bound.
C9_SilentSlot(j) ==
    LET from == IF j = 1 THEN 0 ELSE C9_DelayIndex(j - 1)
        to   == C9_DelayIndex(j)
    IN  /\ \A k \in (from + 1)..to : last.calls[k].kind # "timer"
        /\ C9_ChannelAfter(to) \in {Silent, None}
        /\ C9_ChannelAfter(to) = None => ~last.pre.timer.configured

\* C9 as stated: play(0) returns Ok, makes no timer call and configures the
\* sound channel to 0% exactly when the timer is configured; a slot of
\* frequency 0 in a sequence makes no timer call and the channel is at 0%
\* during its delay.
C9_Original ==
    /\ C9_PlayZero =>
           /\ last.result = "Ok"
           /\ Count(last.calls, "timer") = 0
           /\ IF last.pre.timer.configured
              THEN last.calls = <<ChannelCall("sound", 0, TRUE)>> /\ channel = Silent
              ELSE last.calls = <<>>
    /\ \A j \in 1..MaxLen : C9_ZeroSlot(j) => C9_SilentSlot(j)

\* What holds of play(0) in place of C9: it makes the calls mute() makes, no
\* timer call among them, and returns Ok when the channel call succeeds or is
\* not made; when the channel call fails it panics in mute(), the channel
\* staying as it was.  The slots of frequency 0 that are reached are silent.
C9_PlayZeroIsMute ==
    /\ C9_PlayZero =>
           /\ volume = last.pre.volume
           /\ timer = last.pre.timer
           /\ volume_pin = last.pre.volume_pin
           /\ IF ~last.pre.timer.configured
              THEN last.calls = <<>> /\ last.result = "Ok" /\ Untouched
              ELSE /\ Len(last.calls) = 1
                   /\ last.calls[1] = ChannelCall("sound", 0, last.calls[1].ok)
                   /\ IF last.calls[1].ok
                      THEN last.result = "Ok" /\ channel = Silent
                      ELSE last.result = "Panic" /\ channel = last.pre.channel
    /\ \A j \in 1..MaxLen : C9_ZeroSlot(j) => C9_SilentSlot(j)

\* C9 witness: play_tones([300,0,300],[200,50,200]) returned Ok on an engine
\* whose timer was configured.
C9_Witness ==
    /\ last.op = "play_tones"
    /\ last.sequence = <<300, 0, 300>>
    /\ last.timings = <<200, 50, 200>>
    /\ last.pre.timer.configured
    /\ last.result = "Ok"

\* A play(0) panicked in mute(), the channel call having failed.
C9_PlayZeroPanics ==
    /\ C9_PlayZero
    /\ last.result = "Panic"
    /\ ~last.calls[1].ok

----------------------------------------------------------------------------
(* C10 *)

\* The last operation is a play of a nonzero frequency of ratio at least 1.
C10_Case ==
    /\ last.op = "play"
    /\ last.frequency # 0
    /\ apb_clock \div last.frequency >= 1

\* min(14, floor(log2(ratio))) for the frequency of the last operation
C10_Formula == Min(MaxDutyBits, FloorLog2(apb_clock \div last.frequency))

\* C10 as stated: for a nonzero frequency of ratio at least 1, play makes a
\* timer call with the resolution min(14, floor(log2(ratio))), the APB clock
\* and the frequency.
C10_Original ==
    C10_Case =>
        \E i \in 1..Len(last.calls) :
            last.calls[i] = TimerCall(C10_Formula, last.frequency, last.calls[i].ok)

\* What holds in place of C10: the resolution play computes is
\* min(14, floor(log2(ratio))); with a ratio of at least 2 it is passed to the
\* one timer call with the APB clock and the frequency; with a ratio of 1 it
\* is 0, no variant of Duty is found for it and play panics before any timer
\* or channel call.
C10_Resolution ==
    C10_Case =>
        /\ last.calls[1].kind = "duty"
        /\ last.calls[1].duty = C10_Formula
        /\ IF Convertible(last.frequency)
           THEN /\ Len(last.calls) >= 2
                /\ last.calls[2] = TimerCall(C10_Formula, last.frequency, last.calls[2].ok)
                /\ Count(last.calls, "timer") = 1
           ELSE /\ C10_Formula = 0
                /\ Len(last.calls) = 1
                /\ last.result = "Panic"
                /\ Untouched

\* C10 witness: a play of ratio 1 panicked with no timer call.
C10_Witness ==
    /\ C10_Case
    /\ apb_clock \div last.frequency = 1
    /\ last.result = "Panic"
    /\ Count(last.calls, "timer") = 0

----------------------------------------------------------------------------
(* C11 *)

\* The last operation is a play of a nonzero frequency that returned Ok.
C11_Played == last.op = "play" /\ last.frequency # 0 /\ last.result = "Ok"

\* The duty percentage C11 has the play use: the level of a Duty volume, else 50
C11_Expected ==
    IF IsSome(last.pre.volume) /\ Unwrap(last.pre.volume).volume_type = "Duty"
    THEN Unwrap(last.pre.volume).level
    ELSE DefaultLevel

\* C11: a play of a nonzero frequency that returns Ok configures the channel on
\* the sound pin once, at the level of the attached Duty volume, and at 50%
\* when no volume or an OnOff volume is attached, whatever set_volume calls
\* were made on it.
C11_PlayDutyPct ==
    C11_Played =>
        /\ OfKind(last.calls, "channel") = <<ChannelCall("sound", C11_Expected, TRUE)>>
        /\ channel = Some([pin |-> "sound", duty_pct |-> C11_Expected])

\* C11 witness: a play returned Ok on an OnOff volume that set_volume(0) had
\* switched off.
C11_Witness ==
    /\ C11_Played
    /\ IsSome(last.pre.volume)
    /\ Unwrap(last.pre.volume).volume_type = "OnOff"
    /\ last.pre.volume_pin = "Low"

----------------------------------------------------------------------------
(* C12 *)

\* The last operation is one of those C12 names.
C12_Fallible == last.op \in {"set_volume", "mute", "play"} \cup Players

\* The configure calls of the last operation that failed
C12_Failures ==
    {i \in 1..Len(last.calls) : IsConfigure(last.calls[i]) /\ ~last.calls[i].ok}

\* C12 as stated: a timer or channel configuration that fails inside a public
\* operation is returned to the caller as Error::Timer or Error::Channel, and
\* is never swallowed, retried or turned into a panic.
C12_Original ==
    C12_Fallible =>
        \A i \in C12_Failures :
            /\ i = Len(last.calls)
            /\ last.result = IF last.calls[i].kind = "timer" THEN "Timer" ELSE "Channel"

\* What holds in place of C12: a configuration that fails is the last call of
\* the operation (nothing is retried or swallowed); a timer failure is returned
\* as Error::Timer; a channel failure is returned as Error::Channel by
\* set_volume and by a play of a nonzero frequency, and is a panic when the
\* call was made by mute(), which only configures the sound pin at 0%.
C12_Propagation ==
    C12_Fallible =>
        \A i \in C12_Failures :
            /\ i = Len(last.calls)
            /\ last.calls[i].kind = "timer" => last.result = "Timer"
            /\ last.calls[i].kind = "channel" => last.result \in {"Channel", "Panic"}
            /\ last.result = "Panic" => last.calls[i] = ChannelCall("sound", 0, FALSE)
            /\ last.op = "set_volume" => last.result \in {"Timer", "Channel"}
            /\ (last.op = "play" /\ last.frequency # 0) => last.result \in {"Timer", "Channel"}
            /\ last.op = "mute" => last.result = "Panic"

\* C12 witness: mute() panicked on a failed channel configuration.
C12_MutePanics ==
    /\ last.op = "mute"
    /\ C12_Failures # {}
    /\ last.result = "Panic"

----------------------------------------------------------------------------
(* C13 *)

\* C13: on an OnOff volume set_volume returns Ok for every level, drives the
\* volume pin low for 0 and high for 1 and above, makes no timer and no channel
\* call and leaves the volume, the timer and the channel as they were, a tone
\* playing or not.
C13_OnOff ==
    SetVolumeOn("OnOff") =>
        /\ last.result = "Ok"
        /\ last.calls = <<PinCall(IF last.level = 0 THEN "Low" ELSE "High")>>
        /\ volume_pin = (IF last.level = 0 THEN "Low" ELSE "High")
        /\ volume = last.pre.volume
        /\ timer = last.pre.timer
        /\ channel = last.pre.channel

\* C13 witness: set_volume(255) on an OnOff volume while a tone was sounding.
C13_Witness ==
    /\ SetVolumeOn("OnOff")
    /\ last.level = MaxU8
    /\ IsSome(last.pre.channel)
    /\ Unwrap(last.pre.channel).pin = "sound"
    /\ Unwrap(last.pre.channel).duty_pct > 0

----------------------------------------------------------------------------
(* C14 *)

\* The last operation is a sequence player given as many timings as
\* frequencies.
C14_Case == last.op \in Players /\ Len(last.sequence) = Len(last.timings)

\* The configure call that failed in the last operation, counted among its
\* configure calls; 0 if none failed
C14_FailAt ==
    IF C12_Failures = {}
    THEN 0
    ELSE ConfigureCount(SubSeq(last.calls, 1, CHOOSE i \in C12_Failures : TRUE))

\* An execution that starts in the state the last operation started in, with
\* the collaborators failing as they did for it
C14_Again ==
    [volume |-> last.pre.volume, timer |-> last.pre.timer,
     channel |-> last.pre.channel, volume_pin |-> last.pre.volume_pin,
     calls |-> <<>>, result |-> "Running", fail_at |-> C14_FailAt]

\* What the last operation did: its calls, its result and the state it left
C14_Done ==
    [volume |-> volume, timer |-> timer, channel |-> channel,
     volume_pin |-> volume_pin, calls |-> last.calls, result |-> last.result,
     fail_at |-> C14_FailAt]

\* The pairs of the last operation as play_song takes them
C14_Tones ==
    [i \in 1..Len(last.sequence) |->
        [frequency |-> last.sequence[i], duration |-> last.timings[i]]]

\* C14: from the same state, on the same pairs and with the same failure of
\* the collaborators, play_tones, play_tones_from_slice (slices of equal
\* length) and play_song make the same timer, channel and delay calls, return
\* the same result and leave the same state: whichever of them the last
\* operation was, each of the three gives what it gave.
C14_Equivalent ==
    C14_Case =>
        /\ PlayTones(C14_Again, last.sequence, last.timings) = C14_Done
        /\ PlayTonesFromSlice(C14_Again, last.sequence, last.timings) = C14_Done
        /\ PlaySong(C14_Again, C14_Tones) = C14_Done

\* C14 witness: play_tones_from_slice over three pairs, the second of
\* frequency 0, stopped by a channel failure after the first delay.
C14_Witness ==
    /\ last.op = "play_tones_from_slice"
    /\ Len(last.sequence) = MaxLen
    /\ last.sequence[2] = 0
    /\ last.result = "Channel"
    /\ Count(last.calls, "delay") >= 1

----------------------------------------------------------------------------
(* C15 *)

\* The positions of the calls of a kind in the log of the last operation
C15_At(kind) == {p \in 1..Len(last.calls) : last.calls[p].kind = kind}

\* The pair that is being processed when the call at position p is made: one
\* more than the delays made before it
C15_Pair(p) == Cardinality({d \in C15_At("delay") : d < p}) + 1

\* The timer is configured when the call at position p is made.
C15_TimerConfiguredAt(p) ==
    \/ last.pre.timer.configured
    \/ \E q \in C15_At("timer") : q < p /\ last.calls[q].ok

\* The calls that failed: configurations, and conversions of the resolution
C15_Failed == {p \in 1..Len(last.calls) : ~last.calls[p].ok}

\* The delays are made in input order, one per pair, with the pair's duration.
C15_DelaysInOrder ==
    \A p \in C15_At("delay") :
        /\ C15_Pair(p) <= Len(last.sequence)
        /\ last.calls[p].ms = last.timings[C15_Pair(p)]

\* A timer call belongs to the play of the pair being processed: it has that
\* pair's frequency and is the one timer call made for the pair.
C15_PlaysInOrder ==
    \A p \in C15_At("timer") :
        /\ C15_Pair(p) <= Len(last.sequence)
        /\ last.calls[p].frequency = last.sequence[C15_Pair(p)]
        /\ last.calls[p].frequency # 0
        /\ \A q \in C15_At("timer") : C15_Pair(q) = C15_Pair(p) => q = p

\* The delay of a pair follows the play of that pair at once, the play having
\* returned Ok: for a nonzero frequency the two calls before the delay are the
\* timer call and the channel call of the play, both successful.
C15_PlayThenDelay ==
    \A p \in C15_At("delay") :
        IF last.sequence[C15_Pair(p)] # 0
        THEN /\ p > 2
             /\ last.calls[p - 2].kind = "timer"
             /\ last.calls[p - 2].ok
             /\ last.calls[p - 2].frequency = last.sequence[C15_Pair(p)]
             /\ last.calls[p - 1] = ChannelCall("sound", LevelOr50(last.pre), TRUE)
        ELSE \A q \in C15_At("timer") : C15_Pair(q) # C15_Pair(p)

\* The mute of a pair follows the delay of that pair at once: with the timer
\* configured, the call after a delay is the sound pin at 0%.
C15_DelayThenMute ==
    \A p \in C15_At("delay") :
        C15_TimerConfiguredAt(p) =>
            /\ p < Len(last.calls)
            /\ last.calls[p + 1] = ChannelCall("sound", 0, last.calls[p + 1].ok)

\* The play of pair k failed: the player returned Error::Timer or
\* Error::Channel.
C15_PlayFailed == last.result \in {"Timer", "Channel"}

\* After a failed play nothing is done: the failed call is the last call, it
\* was made by the play of the pair after the last delay, and no delay or mute
\* for that pair and no call for a later pair is in the log.
C15_AbortAtOnce ==
    /\ \A p \in C15_Failed : p = Len(last.calls)
    /\ C15_PlayFailed =>
           /\ C15_Failed = {Len(last.calls)}
           /\ C15_Pair(Len(last.calls)) <= Len(last.sequence)
           /\ last.sequence[C15_Pair(Len(last.calls))] # 0
           /\ Count(last.calls, "delay") = C15_Pair(Len(last.calls)) - 1
           /\ \E q \in C15_At("timer") :
                  /\ C15_Pair(q) = C15_Pair(Len(last.calls))
                  /\ q >= Len(last.calls) - 1
           /\ last.result = (IF last.calls[Len(last.calls)].kind = "timer"
                             THEN "Timer" ELSE "Channel")
    /\ last.result = "Ok" =>
           /\ C15_Failed = {}
           /\ Count(last.calls, "delay") = Len(last.sequence)

\* C15: a sequence player processes the pairs in input order, each as
\* play(frequency), then delay(duration), then mute(); when the play of pair k
\* fails the player returns that error at once, and no delay, no mute and no
\* play for pair k or a later pair follows the failure.
C15_InOrder ==
    C14_Case =>
        /\ C15_DelaysInOrder
        /\ C15_PlaysInOrder
        /\ C15_PlayThenDelay
        /\ C15_DelayThenMute
        /\ C15_AbortAtOnce

\* C15 witness: a player over three pairs returned Error::Timer from the play
\* of the second pair, after the delay and the mute of the first.
C15_Witness ==
    /\ last.op \in Players
    /\ Len(last.sequence) = MaxLen
    /\ last.result = "Timer"
    /\ Count(last.calls, "delay") = 1
    /\ last.sequence[3] # 0

----------------------------------------------------------------------------
(* C16 *)

\* The last operation is a play of a nonzero frequency.
C16_Case == last.op = "play" /\ last.frequency # 0

\* C16 as stated: for every nonzero frequency the resolution play computes is
\* in [0,14] and is a value of the timer's type of resolutions, so that the
\* conversion never fails and play never aborts on it.
C16_Original ==
    C16_Case =>
        /\ last.calls[1].kind = "duty"
        /\ last.calls[1].duty \in 0..MaxDutyBits
        /\ last.calls[1].ok
        /\ last.result # "Panic"

\* What holds in place of C16: the resolution is in [0,14]; the conversion
\* succeeds when the ratio of the clock to the frequency is at least 2, and
\* with a ratio of 1 or 0 the resolution is 0, the conversion fails and play
\* panics with no timer or channel call made and nothing changed.
C16_Range ==
    C16_Case =>
        /\ last.calls[1] = DutyCall(Resolution(apb_clock, last.frequency),
                                    Convertible(last.frequency))
        /\ last.calls[1].duty \in 0..MaxDutyBits
        /\ Convertible(last.frequency) => last.result # "Panic"
        /\ ~Convertible(last.frequency) =>
               /\ last.calls[1].duty = 0
               /\ last.result = "Panic"
               /\ Len(last.calls) = 1
               /\ Untouched

\* C16 witness: a play of a frequency above the clock (ratio 0) panicked on the
\* conversion of the resolution 0.
C16_Aborts ==
    /\ C16_Case
    /\ apb_clock \div last.frequency = 0
    /\ last.calls = <<DutyCall(0, FALSE)>>
    /\ last.result = "Panic"

----------------------------------------------------------------------------
(* C17 *)

\* C17: a channel configuration is attempted only while the timer is
\* configured.  In a play of a nonzero frequency the channel call follows the
\* successful timer call of that play, and a timer failure returns with no
\* channel call; in set_volume the channel call follows the successful lazy
\* timer call, or the timer was configured already; mute() makes its channel
\* call only with the timer configured.
C17_TimerBeforeChannel ==
    /\ \A p \in C15_At("channel") : C15_TimerConfiguredAt(p)
    /\ \A p \in C15_At("timer") :
           ~last.calls[p].ok => p = Len(last.calls) /\ last.result = "Timer"
    /\ C16_Case =>
           \A p \in C15_At("channel") :
               /\ p > 1
               /\ last.calls[p - 1].kind = "timer"
               /\ last.calls[p - 1].ok
    /\ last.op = "set_volume" =>
           \A p \in C15_At("channel") :
               \/ last.pre.timer.configured /\ p = 1
               \/ /\ ~last.pre.timer.configured
                  /\ p = 2
                  /\ last.calls[1] = TimerCall(CarrierDutyBits, CarrierHz, TRUE)
    /\ last.op = "mute" =>
           (C15_At("channel") # {} <=> last.pre.timer.configured)

\* C17 witness: a play on an engine whose timer was not configured returned
\* Error::Timer, and no channel call was made.
C17_Witness ==
    /\ C16_Case
    /\ ~last.pre.timer.configured
    /\ last.result = "Timer"
    /\ C15_At("channel") = {}
    /\ channel = last.pre.channel

----------------------------------------------------------------------------
(* C18 *)

\* The last operation is set_volume of a level in 0..=99 on a Duty volume, the
\* timer being configured.
C18_Case ==
    /\ SetVolumeOn("Duty")
    /\ last.level \in 0..MaxPwmLevel
    /\ last.pre.timer.configured

\* C18 as amended: set_volume of a level in 0..=99 on a Duty volume whose timer
\* is configured makes no timer call, only the one channel call on the volume
\* pin, and leaves the timer as it was; when a play has configured the timer,
\* its resolution, clock source and frequency are those of the last play whose
\* timer configuration succeeded, whether that play returned Ok or then failed
\* on the channel.
C18_TimerUntouched ==
    C18_Case =>
        /\ last.calls = <<ChannelCall("volume", last.level, last.calls[1].ok)>>
        /\ timer = last.pre.timer
        /\ IsSome(play_timer) => timer.config = play_timer

\* C18 witness: set_volume(30) after a play that returned Ok and a later play
\* of another frequency that configured the timer and failed on the channel.
C18_Witness ==
    /\ C18_Case
    /\ IsSome(ok_play_timer)
    /\ play_timer # ok_play_timer
    /\ last.result = "Ok"

\* C18 as stated: the timer is left with the resolution, clock source and
\* frequency of the last play that returned Ok.
C18_Original ==
    (C18_Case /\ IsSome(ok_play_timer)) =>
        /\ Count(last.calls, "timer") = 0
        /\ timer.config = ok_play_timer

----------------------------------------------------------------------------
(* C19 *)

\* The last operation is set_volume of a level in 0..=99 on a Duty volume, the
\* timer not being configured.
C19_Case ==
    /\ SetVolumeOn("Duty")
    /\ last.level \in 0..MaxPwmLevel
    /\ ~last.pre.timer.configured

\* min(14, floor(log2(platform_clock_hz / 20000)))
C19_Formula == Min(MaxDutyBits, FloorLog2(apb_clock \div CarrierHz))

\* C19 as stated: with the timer not configured, set_volume of a level in
\* 0..=99 on a Duty volume configures the timer at 20 kHz with the resolution
\* the clock division of play gives, min(14, floor(log2(clock / 20000))), on
\* every platform clock.
C19_Original ==
    C19_Case =>
        /\ last.calls # <<>>
        /\ last.calls[1] = TimerCall(C19_Formula, CarrierHz, last.calls[1].ok)
        /\ C19_Formula = Resolution(apb_clock, CarrierHz)

\* What holds in place of C19: the timer call is made at 20 kHz on the APB
\* clock with 11 bits on every platform; 11 is what the clock division gives
\* on an 80 MHz clock and not on a 40 MHz clock, where it gives 10.
C19_Carrier ==
    C19_Case =>
        /\ last.calls # <<>>
        /\ last.calls[1] = TimerCall(CarrierDutyBits, CarrierHz, last.calls[1].ok)
        /\ Resolution(apb_clock, CarrierHz) = C19_Formula
        /\ (C19_Formula = CarrierDutyBits) <=> (apb_clock = 80000000)

\* C19 witness: on a 40 MHz clock set_volume configured the timer with 11
\* bits, the clock division giving 10.
C19_Witness ==
    /\ C19_Case
    /\ apb_clock = 40000000
    /\ last.calls[1] = TimerCall(CarrierDutyBits, CarrierHz, TRUE)
    /\ C19_Formula = CarrierDutyBits - 1

----------------------------------------------------------------------------
(* C20 *)

\* C20: the level of an attached volume is in [0,100] in every reachable
\* state: it is 50 after with_volume, and no set_volume of a level in 0..=255,
\* returning Ok or an error on either strategy, no play, no mute and no
\* sequence takes it out of that range.
C20_LevelInRange ==
    /\ IsSome(volume) => Unwrap(volume).level \in 0..FullLevel
    /\ last.op = "with_volume" => IsSome(volume) /\ Unwrap(volume).level = DefaultLevel
    /\ (last.op \in {"play", "mute"} \cup Players) => volume = last.pre.volume

\* C20 witness: set_volume(255) was refused on a Duty volume whose level had
\* been set to 99.
C20_Witness ==
    /\ SetVolumeOn("Duty")
    /\ last.level = MaxU8
    /\ last.result = "VolumeOutOfRange"
    /\ Unwrap(volume).level = MaxPwmLevel

----------------------------------------------------------------------------
(* C21 *)

\* The last operation is set_volume of a level in 0..=99 on a Duty volume that
\* returned Error::Timer or Error::Channel.
C21_Failed ==
    /\ SetVolumeOn("Duty")
    /\ last.level \in 0..MaxPwmLevel
    /\ last.result \in {"Timer", "Channel"}

\* The last operation is a play of a nonzero frequency that reached the channel
\* on a Duty volume whose last set_volume of a level in 0..=99 did not return Ok.
C21_PlayAfterFailed ==
    /\ C6_PlayOnDuty
    /\ called_level # ok_level

\* C21: on a Duty volume, set_volume of a level in 0..=99 stores the level
\* before any hardware call: when the lazy timer configuration or the channel
\* configuration fails and the call returns Error::Timer or Error::Channel,
\* the stored level is the new one already, nothing else of the engine having
\* changed but what the calls before the failure did, and the next play
\* configures the sound channel with it.
C21_StoredBeforeFailure ==
    /\ C21_Failed =>
           /\ Unwrap(volume).level = last.level
           /\ C12_Failures = {Len(last.calls)}
           /\ last.result = "Timer" =>
                  /\ last.calls = <<TimerCall(CarrierDutyBits, CarrierHz, FALSE)>>
                  /\ timer = last.pre.timer
                  /\ channel = last.pre.channel
           /\ last.result = "Channel" =>
                  /\ last.calls[Len(last.calls)] = ChannelCall("volume", last.level, FALSE)
                  /\ channel = last.pre.channel
    /\ C21_PlayAfterFailed =>
           /\ Unwrap(last.pre.volume).level = called_level
           /\ OfKind(last.calls, "channel")[1]
                  = ChannelCall("sound", called_level, OfKind(last.calls, "channel")[1].ok)

\* C21 witness: a play returned Ok with the level 30 of a set_volume that had
\* failed, the last set_volume to return Ok having set 99.
C21_Witness ==
    /\ C21_PlayAfterFailed
    /\ ok_level = MaxPwmLevel
    /\ called_level = 30
    /\ last.result = "Ok"
    /\ channel = Some([pin |-> "sound", duty_pct |-> 30])

----------------------------------------------------------------------------
(* C22 *)

\* The last operation is a sequence player that returned the error of a play.
C22_Aborted == last.op \in Players /\ last.result \in {"Timer", "Channel"}

\* The channel is bound at a nonzero duty.
C22_Sounding == IsSome(channel) /\ Unwrap(channel).duty_pct > 0

\* The successful channel calls of the last operation
C22_Bound == {p \in C15_At("channel") : last.calls[p].ok}

\* C22: when a sequence player returns the error of the play of a pair k >= 2,
\* the channel is not at a nonzero duty: the last successful channel call is
\* the 0% on the sound pin of the mute of pair k-1, made right after the last
\* delay, or the channel was never bound, the timer not having been configured
\* before the failing play.  An aborted player leaves a nonzero duty only when
\* the first pair failed, and it is the binding from before the sequence.
C22_SilentAfterAbort ==
    /\ (C22_Aborted /\ Count(last.calls, "delay") >= 1) =>
           /\ ~C22_Sounding
           /\ channel \in {Silent, None}
           /\ IF C22_Bound = {}
              THEN /\ channel = None
                   /\ ~last.pre.timer.configured
                   /\ \A q \in C15_At("timer") : q >= Len(last.calls) - 1
              ELSE \E p \in C22_Bound :
                       /\ \A q \in C22_Bound : q <= p
                       /\ last.calls[p] = ChannelCall("sound", 0, TRUE)
                       /\ last.calls[p - 1].kind = "delay"
                       /\ \A d \in C15_At("delay") : d < p
    /\ (C22_Aborted /\ C22_Sounding) =>
           /\ Count(last.calls, "delay") = 0
           /\ channel = last.pre.channel

\* C22 witness: a player over three pairs of nonzero frequency, started while
\* a tone was sounding, returned Error::Channel from the play of the third.
C22_Witness ==
    /\ C22_Aborted
    /\ last.result = "Channel"
    /\ Len(last.sequence) = MaxLen
    /\ AllNonzero(last.sequence)
    /\ Count(last.calls, "delay") = 2
    /\ IsSome(last.pre.channel)
    /\ Unwrap(last.pre.channel).duty_pct > 0
    /\ channel = Silent

====
